---- MODULE Spec2Model ----
(***************************************************************************)
(* A model of two layers of save3ds:                                       *)
(*   - IvfcLevel (src/src/ivfc_level.rs): the hash-verified block device;  *)
(*   - SaveData::new and SaveDataFileSystem                                *)
(*     (src/libsave3ds/src/save_data.rs): opening an image, and file and   *)
(*     directory operations over the FAT allocator and the metadata tables.*)
(* Bytes are abstracted to one bit (Byte == {0, 1}); SHA-256 is modelled   *)
(* as a collision-free function of the hashed buffer.                      *)
(***************************************************************************)
EXTENDS Integers, Sequences, FiniteSets, TLC

\* ------------------------------------------------------------------ bounds
\* the largest data length an IvfcLevel is built over
MaxLen == 3
\* the block length an IvfcLevel is built with
BlockLen == 2
\* FsInfo.data_block_count: the blocks the FAT manages, 1..DataBlockCount
DataBlockCount == 2
\* FsInfo.block_len of the save image
FsBlockLen == 2
\* FsInfo.max_file: the slots of the file table
MaxFile == 1
\* the slots of the directory table besides the root
MaxDir == 1
\* the File handles a caller holds at once
MaxHandles == 2
\* the largest length a caller asks for
MaxFileLen == 3

\* ------------------------------------------------------- program constants
BLOCK_UNVERIFIED == 0
BLOCK_VERIFIED == 1
BLOCK_MODIFIED == 2

\* SaveFile.block of a zero-length file: 0x8000_0000, here as the 32-bit
\* two's-complement integer of that bit pattern
NoBlock == -2147483647 - 1

\* a byte, abstracted to its lowest bit
Byte == {0, 1}

\* a digest slot that holds the digest of no block (random initial content)
Garbage == <<"garbage">>

\* SaveHeader.version of a save image: 0x40000
SAVE_VERSION == 262144

\* absent values of the bookkeeping variables
None == <<"none">>

\* a free slot of the file table and of the directory table
NoFileRec == [parent |-> -1, name |-> "", block |-> NoBlock, size |-> 0]
NoDirRec == [parent |-> -1, name |-> ""]
\* File.data = None: no FatFile (a FatFile has at least one block)
NoData == <<>>
\* a handle slot that holds no File
NoHandle == [ino |-> 0, len |-> 0, data |-> NoData]

VARIABLES
    \* --- IvfcLevel and its two stores
    hash,        \* the hash store: block index -> stored digest
    data,        \* the data store: position -> byte
    block_len,   \* IvfcLevel.block_len
    len,         \* IvfcLevel.len
    status,      \* IvfcLevel.status: chunk index -> u8 (four 2-bit fields)
    \* --- bookkeeping for the properties (not program state)
    plain,       \* the plain byte array of test::fuzz; None before the initial write
    trusted,     \* positions written through, or digest-checked by, this instance
    committed,   \* the data as of the last commit that left every digest right
    tamper,      \* the block flipped behind the level's back, not yet read; -1
    last,        \* the last operation and its result
    \* --- SaveData and the File handles of its callers
    fat,         \* SaveData.fat: [free, chain], the free chain and the file chains
    meta,        \* SaveData.fs: [files, ffree, dirs, dfree], the two tables
    handles,     \* the File objects held: slot -> None or [ino, len, data]
    fslast,      \* bookkeeping: the last file system operation and its result
    save         \* the image handed to SaveData::new and what new made of it

ivfcVars == <<hash, data, block_len, len, status,
              plain, trusted, committed, tamper, last>>
fsVars == <<fat, meta, handles, fslast, save>>
vars == <<hash, data, block_len, len, status,
          plain, trusted, committed, tamper, last,
          fat, meta, handles, fslast, save>>

\* ----------------------------------------------------------------- helpers
Min(a, b) == IF a < b THEN a ELSE b
Max(a, b) == IF a > b THEN a ELSE b

RECURSIVE Pow4(_)
Pow4(j) == IF j = 0 THEN 1 ELSE 4 * Pow4(j - 1)

\* block_count as computed in IvfcLevel::new, commit and test::fuzz
BlockCount(l, b) == 1 + (l - 1) \div b

\* chunk_count of IvfcLevel::new
ChunkCount(l, b) == 1 + (BlockCount(l, b) - 1) \div 4

\* SHA-256, collision-free: the digest determines the hashed buffer
Sha256(buf) == <<"sha256", buf>>

\* IvfcLevel::get_status
get_status(st, block_index) ==
    (st[block_index \div 4] \div Pow4(block_index % 4)) % 4

\* mutant of set_status: the new value is or-ed in, the field is not cleared
BitOr2(a, b) ==
    (IF a % 2 = 1 \/ b % 2 = 1 THEN 1 ELSE 0)
        + (IF a \div 2 = 1 \/ b \div 2 = 1 THEN 2 ELSE 0)
set_status_NoClear(st, block_index, s) ==
    LET i == block_index \div 4
        j == block_index % 4
        old == (st[i] \div Pow4(j)) % 4
    IN  [st EXCEPT ![i] = st[i] - old * Pow4(j) + BitOr2(old, s) * Pow4(j)]

\* IvfcLevel::set_status: clear the 2-bit field, then or the new value in
set_status(st, block_index, s) ==
    LET i == block_index \div 4
        j == block_index % 4
        cleared == st[i] - ((st[i] \div Pow4(j)) % 4) * Pow4(j)
    IN  [st EXCEPT ![i] = cleared + s * Pow4(j)]

\* the status vector of IvfcLevel::new: vec![0; chunk_count]
NewStatus(l, b) == [c \in 0..(ChunkCount(l, b) - 1) |-> 0]

\* the block as loaded by read: vec![0; block_len], the data read into its head
BlockBuf(d, i) ==
    LET data_begin_as_block == i * block_len
        data_end_as_block == Min((i + 1) * block_len, len)
    IN  [k \in 0..(block_len - 1) |->
            IF data_begin_as_block + k < data_end_as_block
            THEN d[data_begin_as_block + k] ELSE 0]

\* the block as loaded by commit; the mutant hashes only the bytes read
CommitBufUnpadded(d, i) ==
    LET begin == i * block_len
        end == Min((i + 1) * block_len, len)
    IN  [k \in 0..(end - begin - 1) |-> d[begin + k]]

CommitBuf(d, i) ==
    LET begin == i * block_len
        end == Min((i + 1) * block_len, len)
    IN  [k \in 0..(block_len - 1) |-> IF begin + k < end THEN d[begin + k] ELSE 0]

\* the digest check of read (lines 69-79): [ok, status]
\* mutants: the comparison is dropped; the status is set before the comparison
VerifyBlockNoCompare(st, i, block_buf) ==
    IF get_status(st, i) = BLOCK_UNVERIFIED
    THEN [ok |-> TRUE, checked |-> TRUE, status |-> set_status(st, i, BLOCK_VERIFIED)]
    ELSE [ok |-> TRUE, checked |-> FALSE, status |-> st]

VerifyBlockLatching(st, i, block_buf) ==
    IF get_status(st, i) = BLOCK_UNVERIFIED
    THEN IF Sha256(block_buf) # hash[i]
         THEN [ok |-> FALSE, checked |-> FALSE,
               status |-> set_status(st, i, BLOCK_VERIFIED)]
         ELSE [ok |-> TRUE, checked |-> TRUE,
               status |-> set_status(st, i, BLOCK_VERIFIED)]
    ELSE [ok |-> TRUE, checked |-> FALSE, status |-> st]

VerifyBlock(st, i, block_buf) ==
    IF get_status(st, i) = BLOCK_UNVERIFIED
    THEN IF Sha256(block_buf) # hash[i]
         THEN [ok |-> FALSE, checked |-> FALSE, status |-> st]
         ELSE [ok |-> TRUE, checked |-> TRUE,
               status |-> set_status(st, i, BLOCK_VERIFIED)]
    ELSE [ok |-> TRUE, checked |-> FALSE, status |-> st]

\* the loop of IvfcLevel::read over begin_block..end_block
RECURSIVE ReadLoop(_, _, _, _, _, _, _)
ReadLoop(i, end_block, pos, end, st, buf, ver) ==
    IF i >= end_block
    THEN [res |-> "Ok", status |-> st, buf |-> buf, ver |-> ver, bad |-> -1]
    ELSE
      LET data_begin_as_block == i * block_len
          data_end_as_block == Min((i + 1) * block_len, len)
          block_buf == BlockBuf(data, i)
          v == VerifyBlock(st, i, block_buf)
          data_begin == Max(data_begin_as_block, pos)
          data_end == Min(data_end_as_block, end)
          buf2 == [k \in DOMAIN buf |->
                     IF data_begin - pos <= k /\ k < data_end - pos
                     THEN block_buf[k + pos - data_begin_as_block]
                     ELSE buf[k]]
      IN  IF ~v.ok
          THEN [res |-> "HashMismatch", status |-> v.status, buf |-> buf,
                ver |-> ver, bad |-> i]
          ELSE ReadLoop(i + 1, end_block, pos, end, v.status, buf2,
                        IF v.checked THEN ver \cup {i} ELSE ver)

\* IvfcLevel::read(pos, buf) with buf.len() = n, buf zeroed by the caller
ReadOp(pos, n) ==
    LET end == pos + n
        begin_block == pos \div block_len
        end_block == 1 + (end - 1) \div block_len
    IN  ReadLoop(begin_block, end_block, pos, end, status,
                 [k \in 0..(n - 1) |-> 0], {})

\* the blocks a range covers
BlocksOf(pos, n) == (pos \div block_len)..((pos + n - 1) \div block_len)

\* the positions of a block
BytesOf(i) == {p \in 0..(len - 1) : p \div block_len = i}

\* mutant of MarkModified: the written blocks are marked Verified
RECURSIVE MarkVerified(_, _, _)
MarkVerified(st, i, end_block) ==
    IF i >= end_block THEN st
    ELSE MarkVerified(set_status(st, i, BLOCK_VERIFIED), i + 1, end_block)

\* the loop of IvfcLevel::write marking begin_block..end_block Modified
RECURSIVE MarkModified(_, _, _)
MarkModified(st, i, end_block) ==
    IF i >= end_block THEN st
    ELSE MarkModified(set_status(st, i, BLOCK_MODIFIED), i + 1, end_block)

\* mutant of CommitLoop: the block is marked Verified, its digest is kept
RECURSIVE CommitLoopKeepDigest(_, _, _)
CommitLoopKeepDigest(i, st, h) ==
    IF i >= BlockCount(len, block_len) THEN [status |-> st, hash |-> h]
    ELSE IF get_status(st, i) = BLOCK_MODIFIED
         THEN CommitLoopKeepDigest(i + 1, set_status(st, i, BLOCK_VERIFIED), h)
         ELSE CommitLoopKeepDigest(i + 1, st, h)

\* the loop of IvfcLevel::commit over 0..block_count: [status, hash]
RECURSIVE CommitLoop(_, _, _)
CommitLoop(i, st, h) ==
    IF i >= BlockCount(len, block_len) THEN [status |-> st, hash |-> h]
    ELSE IF get_status(st, i) = BLOCK_MODIFIED
         THEN CommitLoop(i + 1, set_status(st, i, BLOCK_VERIFIED),
                         [h EXCEPT ![i] = Sha256(CommitBuf(data, i))])
         ELSE CommitLoop(i + 1, st, h)

\* the builds of the crate: debug panics on arithmetic overflow, release wraps
Builds == {"debug", "release"}

\* IvfcLevel::read(pos, buf) with an empty buf or with pos + buf.len() > len.
\* assert!(end <= self.len()) aborts in every build.  With end = pos,
\* end_block = 1 + (end - 1) / block_len is the block of pos - 1, and the
\* loop runs over the block of pos when pos is inside a block.  With end = 0,
\* end - 1 overflows: a panic in the debug build; in the release build the
\* loop runs from block 0 on until a block fails its check or, past the last
\* block, the index of the block's data is out of range.
ReadEdgeOp(pos, n, build) ==
    LET end == pos + n
        begin_block == pos \div block_len
        all == ReadLoop(0, BlockCount(len, block_len), 0, 0, status, <<>>, {})
    IN  IF end > len THEN [res |-> "Panic", status |-> status]
        ELSE IF end = 0
        THEN IF build = "debug" THEN [res |-> "Panic", status |-> status]
             ELSE IF all.res # "Ok" THEN [res |-> all.res, status |-> all.status]
             ELSE [res |-> "Panic", status |-> all.status]
        ELSE LET r == ReadLoop(begin_block, 1 + (end - 1) \div block_len,
                               pos, end, status, <<>>, {})
             IN  [res |-> r.res, status |-> r.status]

\* IvfcLevel::write(pos, buf) with an empty buf or with pos + buf.len() > len:
\* as read; in the release build with end = 0 the loop marks every entry of
\* the status vector Modified before set_status indexes past its end.
WriteEdgeOp(pos, n, build) ==
    LET end == pos + n
        begin_block == pos \div block_len
    IN  IF end > len THEN [res |-> "Panic", status |-> status]
        ELSE IF end = 0
        THEN IF build = "debug" THEN [res |-> "Panic", status |-> status]
             ELSE [res |-> "Panic",
                   status |-> MarkModified(status, 0, 4 * ChunkCount(len, block_len))]
        ELSE [res |-> "Ok",
              status |-> MarkModified(status, begin_block,
                                      1 + (end - 1) \div block_len)]

\* IvfcLevel::write(pos, buf) with buf.len() = n > 0 and pos + n <= len, as
\* far as the status goes: self.data.write(pos, buf)? returns the error of
\* the data store (f = "data") before any status is set
WriteOp(pos, n, f) ==
    IF f = "data" THEN [res |-> "IO", status |-> status]
    ELSE [res |-> "Ok",
          status |-> MarkModified(status, pos \div block_len,
                                  1 + (pos + n - 1) \div block_len)]

\* IvfcLevel::read(pos, buf) when the store fails with an I/O error at
\* block k: self.data.read(..)? (where = "data") or self.hash.read(..)?
\* (where = "hash", reached when block k is Unverified); the blocks before k
\* have gone through the loop
ReadIoOp(pos, n, k, where) ==
    LET r == ReadLoop(pos \div block_len, k, pos, pos + n, status,
                      [j \in 0..(n - 1) |-> 0], {})
    IN  IF r.res # "Ok" THEN r
        ELSE [r EXCEPT !.res = "IO", !.bad = k]

\* the loop of IvfcLevel::commit up to block stop
RECURSIVE CommitLoopTo(_, _, _, _)
CommitLoopTo(i, stop, st, h) ==
    IF i >= stop THEN [status |-> st, hash |-> h]
    ELSE IF get_status(st, i) = BLOCK_MODIFIED
         THEN CommitLoopTo(i + 1, stop, set_status(st, i, BLOCK_VERIFIED),
                           [h EXCEPT ![i] = Sha256(CommitBuf(data, i))])
         ELSE CommitLoopTo(i + 1, stop, st, h)

\* IvfcLevel::commit when the store fails with an I/O error at the Modified
\* block k, in self.data.read(..)? or in self.hash.write(..)?: the blocks
\* before k are committed, block k and the blocks after it are not
CommitIoOp(k) == CommitLoopTo(0, k, status, hash)

\* block i of store d carries the digest stored in h
Consistent(d, h, i) == Sha256(BlockBuf(d, i)) = h[i]
AllConsistent(d, h) == \A i \in 0..(BlockCount(len, block_len) - 1) : Consistent(d, h, i)

Slice(d, pos, n) == [k \in 0..(n - 1) |-> d[pos + k]]

\* ------------------------------------------------ FAT (fat.rs, from the spec)
\* A FatFile is the sequence of the blocks of its chain, cached when it is
\* created or opened; its start index is its first block.
Range(q) == {q[k] : k \in 1..Len(q)}

\* Fat after formatting: every block in the free chain
FreshFat == [free |-> [k \in 1..DataBlockCount |-> k],
             chain |-> [b \in 1..DataBlockCount |-> <<>>]]

\* FatFile::create(fat, requested_blocks): carve the head of the free chain
FatCreate(ft, n, f) ==
    IF f = "fat" THEN [res |-> "IO", fat |-> ft, ff |-> NoData, block |-> 0]
    ELSE IF Len(ft.free) < n
    THEN [res |-> "NoSpace", fat |-> ft, ff |-> NoData, block |-> 0]
    ELSE LET blocks == SubSeq(ft.free, 1, n)
         IN  [res |-> "Ok",
              fat |-> [free |-> SubSeq(ft.free, n + 1, Len(ft.free)),
                       chain |-> [ft.chain EXCEPT ![blocks[1]] = blocks]],
              ff |-> blocks, block |-> blocks[1]]

\* FatFile::open(fat, start_index)
FatOpen(ft, b, f) ==
    IF f = "fat" THEN [res |-> "IO", ff |-> NoData]
    ELSE IF b \in 1..DataBlockCount /\ ft.chain[b] # <<>>
    THEN [res |-> "Ok", ff |-> ft.chain[b]]
    ELSE [res |-> "BrokenFat", ff |-> NoData]

\* a FatFile whose cached chain is no longer the chain of the table
Stale(ft, ff) == ft.chain[ff[1]] # ff

\* FatFile::resize(new_blocks): grow at the tail from the head of the free
\* chain, or cut the tail off and free it
FatResize(ft, ff, n, f) ==
    IF f = "fat" THEN [res |-> "IO", fat |-> ft, ff |-> ff]
    ELSE IF Stale(ft, ff) THEN [res |-> "BrokenFat", fat |-> ft, ff |-> ff]
    ELSE IF n = Len(ff) THEN [res |-> "Ok", fat |-> ft, ff |-> ff]
    ELSE IF n > Len(ff)
    THEN IF Len(ft.free) < n - Len(ff)
         THEN [res |-> "NoSpace", fat |-> ft, ff |-> ff]
         ELSE LET grown == ff \o SubSeq(ft.free, 1, n - Len(ff))
              IN  [res |-> "Ok",
                   fat |-> [free |-> SubSeq(ft.free, n - Len(ff) + 1, Len(ft.free)),
                            chain |-> [ft.chain EXCEPT ![ff[1]] = grown]],
                   ff |-> grown]
    ELSE LET kept == SubSeq(ff, 1, n)
         IN  [res |-> "Ok",
              fat |-> [free |-> SubSeq(ff, n + 1, Len(ff)) \o ft.free,
                       chain |-> [ft.chain EXCEPT ![ff[1]] = kept]],
              ff |-> kept]

\* FatFile::delete: the chain is prepended to the free chain
FatDelete(ft, ff, f) ==
    IF f = "fat" THEN [res |-> "IO", fat |-> ft]
    ELSE IF Stale(ft, ff) THEN [res |-> "BrokenFat", fat |-> ft]
    ELSE [res |-> "Ok",
          fat |-> [free |-> ff \o ft.free,
                   chain |-> [ft.chain EXCEPT ![ff[1]] = <<>>]]]

\* FatFile::len: the bytes the chain holds
FatLen(ff) == Len(ff) * FsBlockLen

\* ----------------------------------------- FsMeta (fs_meta.rs, from the spec)
Names == {"a", "b"}
FileInos == 1..MaxFile
DirInos == 1..(MaxDir + 1)
RootIno == 1

\* FsMeta after formatting: the root directory only, the free slots in order
FreshMeta == [files |-> [i \in FileInos |-> NoFileRec],
              ffree |-> [k \in 1..MaxFile |-> k],
              dirs |-> [d \in DirInos |->
                          IF d = RootIno THEN [parent |-> 0, name |-> ""] ELSE NoDirRec],
              dfree |-> [k \in 1..MaxDir |-> k + 1]]

LiveFiles(mt) == {i \in FileInos : mt.files[i] # NoFileRec}
LiveDirs(mt) == {d \in DirInos : mt.dirs[d] # NoDirRec}

\* lookup(parent, name) in the file table and in the directory table
FileNamed(mt, parent, name) ==
    {i \in LiveFiles(mt) : mt.files[i].parent = parent /\ mt.files[i].name = name}
DirNamed(mt, parent, name) ==
    {d \in LiveDirs(mt) : mt.dirs[d].parent = parent /\ mt.dirs[d].name = name}
Exists(mt, parent, name) ==
    FileNamed(mt, parent, name) # {} \/ DirNamed(mt, parent, name) # {}

\* DirMeta::new_sub_file(name, info): reject duplicates, take the first free slot
MetaNewSubFile(mt, parent, name, block, size, f) ==
    IF f = "meta" THEN [res |-> "IO", meta |-> mt, ino |-> 0]
    ELSE IF Exists(mt, parent, name) THEN [res |-> "AlreadyExist", meta |-> mt, ino |-> 0]
    ELSE IF mt.ffree = <<>> THEN [res |-> "NoSpace", meta |-> mt, ino |-> 0]
    ELSE LET ino == Head(mt.ffree)
         IN  [res |-> "Ok", ino |-> ino,
              meta |-> [mt EXCEPT !.ffree = Tail(@),
                                  !.files[ino] = [parent |-> parent, name |-> name,
                                                  block |-> block, size |-> size]]]

\* DirMeta::new_sub_dir(name, info)
MetaNewSubDir(mt, parent, name, f) ==
    IF f = "meta" THEN [res |-> "IO", meta |-> mt]
    ELSE IF Exists(mt, parent, name) THEN [res |-> "AlreadyExist", meta |-> mt]
    ELSE IF mt.dfree = <<>> THEN [res |-> "NoSpace", meta |-> mt]
    ELSE [res |-> "Ok",
          meta |-> [mt EXCEPT !.dfree = Tail(@),
                              !.dirs[Head(mt.dfree)] = [parent |-> parent, name |-> name]]]

\* FileMeta::rename(parent, name): reject duplicates, re-link
MetaRenameFile(mt, ino, parent, name, f) ==
    IF f = "meta" THEN [res |-> "IO", meta |-> mt]
    ELSE IF mt.files[ino] = NoFileRec THEN [res |-> "NotFound", meta |-> mt]
    ELSE IF Exists(mt, parent, name) THEN [res |-> "AlreadyExist", meta |-> mt]
    ELSE [res |-> "Ok",
          meta |-> [mt EXCEPT !.files[ino].parent = parent, !.files[ino].name = name]]

\* DirMeta::rename(parent, name)
MetaRenameDir(mt, d, parent, name, f) ==
    IF f = "meta" THEN [res |-> "IO", meta |-> mt]
    ELSE IF mt.dirs[d] = NoDirRec THEN [res |-> "NotFound", meta |-> mt]
    ELSE IF Exists(mt, parent, name) THEN [res |-> "AlreadyExist", meta |-> mt]
    ELSE [res |-> "Ok",
          meta |-> [mt EXCEPT !.dirs[d] = [parent |-> parent, name |-> name]]]

\* FileMeta::delete: unlink, push the slot onto the free list
MetaDeleteFile(mt, ino, f) ==
    IF f = "meta" THEN [res |-> "IO", meta |-> mt]
    ELSE IF mt.files[ino] = NoFileRec THEN [res |-> "NotFound", meta |-> mt]
    ELSE [res |-> "Ok",
          meta |-> [mt EXCEPT !.files[ino] = NoFileRec, !.ffree = <<ino>> \o @]]

\* DirMeta::delete: the child lists must be empty
MetaDeleteDir(mt, d, f) ==
    IF f = "meta" THEN [res |-> "IO", meta |-> mt]
    ELSE IF mt.dirs[d] = NoDirRec THEN [res |-> "NotFound", meta |-> mt]
    ELSE IF \/ \E i \in LiveFiles(mt) : mt.files[i].parent = d
            \/ \E c \in LiveDirs(mt) : mt.dirs[c].parent = d
    THEN [res |-> "DeletingNonEmpty", meta |-> mt]
    ELSE [res |-> "Ok",
          meta |-> [mt EXCEPT !.dirs[d] = NoDirRec, !.dfree = <<d>> \o @]]

\* ------------------------------------------ SaveDataFileSystem (save_data.rs)
\* A sub-step fails with an I/O error when the fault f names it: "get_info",
\* "set_info", "fat" (a FatFile call), "meta" (a metadata table call),
\* "probe" (the existence probe), "open" (re-opening a created file).
Fail(res) == [res |-> res, hd |-> NoHandle]

\* File::from_meta
\* mutant: the len == 0 test of a file with a chain is left out
from_meta_NoZeroCheck(ft, mt, ino, f) ==
    IF f = "get_info" THEN Fail("IO")
    ELSE IF mt.files[ino] = NoFileRec THEN Fail("NotFound")
    ELSE LET info == mt.files[ino]
             o == FatOpen(ft, info.block, f)
         IN  IF info.block = NoBlock
             THEN IF info.size # 0 THEN Fail("SizeMismatch")
                  ELSE [res |-> "Ok", hd |-> [ino |-> ino, len |-> 0, data |-> NoData]]
             ELSE IF o.res # "Ok" THEN Fail(o.res)
             ELSE IF info.size > FatLen(o.ff) THEN Fail("SizeMismatch")
             ELSE [res |-> "Ok",
                   hd |-> [ino |-> ino, len |-> info.size, data |-> o.ff]]

from_meta(ft, mt, ino, f) ==
    IF f = "get_info" THEN Fail("IO")
    ELSE IF mt.files[ino] = NoFileRec THEN Fail("NotFound")
    ELSE LET info == mt.files[ino]
             o == FatOpen(ft, info.block, f)
         IN  IF info.block = NoBlock
             THEN IF info.size # 0 THEN Fail("SizeMismatch")
                  ELSE [res |-> "Ok", hd |-> [ino |-> ino, len |-> 0, data |-> NoData]]
             ELSE IF o.res # "Ok" THEN Fail(o.res)
             ELSE IF info.size = 0 \/ info.size > FatLen(o.ff) THEN Fail("SizeMismatch")
             ELSE [res |-> "Ok",
                   hd |-> [ino |-> ino, len |-> info.size, data |-> o.ff]]

\* SaveDataFileSystem::file_open_ino
file_open_ino(ft, mt, ino, f) ==
    IF ino \notin FileInos \/ mt.files[ino] = NoFileRec THEN Fail("NotFound")
    ELSE from_meta(ft, mt, ino, f)

\* SaveDataFileSystem::open_sub_file
open_sub_file(ft, mt, dir, name, f) ==
    IF f = "meta" THEN Fail("IO")
    ELSE IF FileNamed(mt, dir, name) = {} THEN Fail("NotFound")
    ELSE from_meta(ft, mt, CHOOSE i \in FileNamed(mt, dir, name) : TRUE, f)

\* SaveDataFileSystem::open_sub_dir
open_sub_dir(mt, dir, name, f) ==
    IF f = "meta" THEN "IO"
    ELSE IF DirNamed(mt, dir, name) = {} THEN "NotFound"
    ELSE "Ok"

\* the existence probe of new_sub_dir, new_sub_file and dir_rename:
\* open_sub_file(..).is_ok() || open_sub_dir(..).is_ok()
Probe(ft, mt, dir, name, f) ==
    LET g == IF f = "probe" THEN "meta" ELSE "none"
    IN  \/ open_sub_file(ft, mt, dir, name, g).res = "Ok"
        \/ open_sub_dir(mt, dir, name, g) = "Ok"

\* the error the existence probe meets and drops: that of open_sub_file
\* unless it is NotFound, else that of open_sub_dir unless it is NotFound
ProbeErr(ft, mt, dir, name, f) ==
    LET g == IF f = "probe" THEN "meta" ELSE "none"
        o == open_sub_file(ft, mt, dir, name, g).res
        d == open_sub_dir(mt, dir, name, g)
    IN  IF o = "Ok" THEN "none"
        ELSE IF o # "NotFound" THEN o
        ELSE IF d \in {"Ok", "NotFound"} THEN "none"
        ELSE d

\* ceil(len / block_len) as save_data.rs computes it
BlocksFor(n) == 1 + (n - 1) \div FsBlockLen

\* the tail of resize: info.size = len; set_info(info)?; file.len = len
ResizeFinish(ft2, mt, hd2, block, n, f) ==
    IF f = "set_info"
    THEN [res |-> "IO", fat |-> ft2, meta |-> mt, hd |-> hd2]
    ELSE [res |-> "Ok", fat |-> ft2,
          meta |-> [mt EXCEPT !.files[hd2.ino].block = block,
                              !.files[hd2.ino].size = n],
          hd |-> [hd2 EXCEPT !.len = n]]

\* SaveDataFileSystem::resize
resize(ft, mt, hd, n, f) ==
    LET same(res) == [res |-> res, fat |-> ft, meta |-> mt, hd |-> hd]
        c == FatCreate(ft, BlocksFor(n), f)
        d == FatDelete(ft, hd.data, f)
        r == FatResize(ft, hd.data, BlocksFor(n), f)
    IN  IF n = hd.len THEN same("Ok")
        ELSE IF f = "get_info" THEN same("IO")
        ELSE IF mt.files[hd.ino] = NoFileRec THEN same("NotFound")
        ELSE IF hd.len = 0
        THEN IF c.res # "Ok" THEN same(c.res)
             ELSE ResizeFinish(c.fat, mt, [hd EXCEPT !.data = c.ff], c.block, n, f)
        ELSE IF hd.data = NoData THEN same("Panic")
        ELSE IF n = 0
        THEN IF d.res # "Ok"
             THEN [res |-> d.res, fat |-> ft, meta |-> mt,
                   hd |-> [hd EXCEPT !.data = NoData]]
             ELSE ResizeFinish(d.fat, mt, [hd EXCEPT !.data = NoData], NoBlock, n, f)
        ELSE IF r.res # "Ok" THEN same(r.res)
        ELSE ResizeFinish(r.fat, mt, [hd EXCEPT !.data = r.ff],
                          mt.files[hd.ino].block, n, f)

\* SaveDataFileSystem::file_delete
file_delete(ft, mt, hd, f) ==
    LET d == IF hd.data = NoData THEN [res |-> "Ok", fat |-> ft]
             ELSE FatDelete(ft, hd.data, f)
        m == MetaDeleteFile(mt, hd.ino, f)
    IN  IF d.res # "Ok" THEN [res |-> d.res, fat |-> ft, meta |-> mt]
        ELSE [res |-> m.res, fat |-> d.fat, meta |-> m.meta]

\* SaveDataFileSystem::new_sub_file
new_sub_file(ft, mt, dir, name, n, f) ==
    LET same(res) == [res |-> res, fat |-> ft, meta |-> mt, hd |-> NoHandle]
        c == IF n = 0 THEN [res |-> "Ok", fat |-> ft, ff |-> NoData, block |-> NoBlock]
             ELSE FatCreate(ft, BlocksFor(n), f)
        m == MetaNewSubFile(mt, dir, name, c.block, n, f)
        back == FatDelete(c.fat, c.ff, "none")
        o == from_meta(c.fat, m.meta, m.ino, IF f = "open" THEN "get_info" ELSE "none")
    IN  IF Probe(ft, mt, dir, name, f) THEN same("AlreadyExist")
        ELSE IF c.res # "Ok" THEN same(c.res)
        ELSE IF m.res # "Ok"
        THEN IF c.ff = NoData THEN same(m.res)
             ELSE IF back.res # "Ok"
             THEN [res |-> back.res, fat |-> c.fat, meta |-> mt, hd |-> NoHandle]
             ELSE [res |-> m.res, fat |-> back.fat, meta |-> mt, hd |-> NoHandle]
        ELSE [res |-> o.res, fat |-> c.fat, meta |-> m.meta, hd |-> o.hd]

\* SaveDataFileSystem::file_rename: no probe, FileMeta::rename decides
file_rename(mt, hd, parent, name, f) == MetaRenameFile(mt, hd.ino, parent, name, f)

\* SaveDataFileSystem::dir_rename
dir_rename(ft, mt, d, parent, name, f) ==
    IF Probe(ft, mt, parent, name, f) THEN [res |-> "AlreadyExist", meta |-> mt]
    ELSE MetaRenameDir(mt, d, parent, name, f)

\* SaveDataFileSystem::new_sub_dir
new_sub_dir(ft, mt, dir, name, f) ==
    IF Probe(ft, mt, dir, name, f) THEN [res |-> "AlreadyExist", meta |-> mt]
    ELSE MetaNewSubDir(mt, dir, name, f)

\* SaveDataFileSystem::dir_delete
dir_delete(mt, d, f) == MetaDeleteDir(mt, d, f)

\* SaveDataFileSystem::read and ::write: the bounds check against file.len,
\* then file.data.as_ref().unwrap() and the FatFile's cached run table
file_io(hd, pos, n) ==
    IF pos + n > hd.len THEN "OutOfBound"
    ELSE IF hd.data = NoData THEN "Panic"
    ELSE IF pos + n > FatLen(hd.data) THEN "OutOfBound"
    ELSE "Ok"

\* the record of a file system operation: its result, whether the name it
\* was to create existed under the target parent, and whether the ino it
\* addressed was deleted
FsRec(op, res, dup, dead) == [op |-> op, res |-> res, dup |-> dup, dead |-> dead]

Dead(mt, ino) == mt.files[ino] = NoFileRec

\* ------------------------------------------------------- SaveData::new
\* The image is [disa_ok, header_ok, magic, version, fs_info_ok,
\* data_block_count, fat_size, rest_ok]: whether Disa::new, the read of the
\* header, the read of FsInfo and the construction of the sub-files, the Fat
\* and the FsMeta succeed, and the fields new looks at.  The result is
\* [res, fs_info_read, object]: object says a SaveData was produced.
\* mutant: the version is not compared
SaveDataNewNoVersion(img) ==
    IF ~img.disa_ok \/ ~img.header_ok
    THEN [res |-> "IO", fs_info_read |-> FALSE, object |-> FALSE]
    ELSE IF img.magic # "SAVE"
    THEN [res |-> "MagicMismatch", fs_info_read |-> FALSE, object |-> FALSE]
    ELSE IF ~img.fs_info_ok
    THEN [res |-> "IO", fs_info_read |-> TRUE, object |-> FALSE]
    ELSE IF img.data_block_count # img.fat_size
    THEN [res |-> "SizeMismatch", fs_info_read |-> TRUE, object |-> FALSE]
    ELSE IF ~img.rest_ok
    THEN [res |-> "IO", fs_info_read |-> TRUE, object |-> FALSE]
    ELSE [res |-> "Ok", fs_info_read |-> TRUE, object |-> TRUE]

SaveDataNew(img) ==
    IF ~img.disa_ok \/ ~img.header_ok
    THEN [res |-> "IO", fs_info_read |-> FALSE, object |-> FALSE]
    ELSE IF img.magic # "SAVE" \/ img.version # SAVE_VERSION
    THEN [res |-> "MagicMismatch", fs_info_read |-> FALSE, object |-> FALSE]
    ELSE IF ~img.fs_info_ok
    THEN [res |-> "IO", fs_info_read |-> TRUE, object |-> FALSE]
    ELSE IF img.data_block_count # img.fat_size
    THEN [res |-> "SizeMismatch", fs_info_read |-> TRUE, object |-> FALSE]
    ELSE IF ~img.rest_ok
    THEN [res |-> "IO", fs_info_read |-> TRUE, object |-> FALSE]
    ELSE [res |-> "Ok", fs_info_read |-> TRUE, object |-> TRUE]

\* the images handed to SaveData::new
Images ==
    [disa_ok : BOOLEAN, header_ok : BOOLEAN, magic : {"SAVE", "SAVX"},
     version : {SAVE_VERSION, 0}, fs_info_ok : BOOLEAN,
     data_block_count : 1..DataBlockCount, fat_size : 1..DataBlockCount,
     rest_ok : BOOLEAN]

\* an image not yet opened, and the image the file system runs on
Unopened(img) == [image |-> img, called |-> FALSE,
                  out |-> [res |-> "none", fs_info_read |-> FALSE, object |-> FALSE]]
OpenedSave ==
    LET img == [disa_ok |-> TRUE, header_ok |-> TRUE, magic |-> "SAVE",
                version |-> SAVE_VERSION, fs_info_ok |-> TRUE,
                data_block_count |-> DataBlockCount, fat_size |-> DataBlockCount,
                rest_ok |-> TRUE]
    IN  [image |-> img, called |-> TRUE, out |-> SaveDataNew(img)]

\* the record of an operation that returns no bytes
Done(op) == [op |-> op, res |-> "Ok", bad |-> -1, rng |-> <<>>, tb |-> -1,
             retry |-> FALSE]

\* ------------------------------------------------------------------- Init
\* test::fuzz: a data store and a hash store of random content; a digest
\* slot holds the digest of its block or that of no block
IvfcInit ==
    /\ len \in 1..MaxLen
    /\ block_len = BlockLen
    /\ data \in [0..(len - 1) -> Byte]
    /\ \E good \in SUBSET (0..(BlockCount(len, block_len) - 1)) :
          hash = [i \in 0..(BlockCount(len, block_len) - 1) |->
                     IF i \in good THEN Sha256(BlockBuf(data, i)) ELSE Garbage]
    /\ status = NewStatus(len, block_len)
    /\ plain = None
    /\ trusted = {}
    /\ committed = IF AllConsistent(data, hash) THEN data ELSE None
    /\ tamper = -1
    /\ last = Done("new")

\* one IvfcLevel, left alone while the file system is exercised
IvfcIdle ==
    /\ len = 1
    /\ block_len = BlockLen
    /\ data = [p \in 0..0 |-> 0]
    /\ hash = [i \in 0..0 |-> Garbage]
    /\ status = NewStatus(1, BlockLen)
    /\ plain = None
    /\ trusted = {}
    /\ committed = None
    /\ tamper = -1
    /\ last = Done("new")

\* a freshly formatted save image, no File open
FsInit ==
    /\ fat = FreshFat
    /\ meta = FreshMeta
    /\ handles = [h \in 1..MaxHandles |-> NoHandle]
    /\ fslast = FsRec("new", "Ok", FALSE, FALSE)
    /\ save = OpenedSave

InitIvfc == IvfcInit /\ FsInit

InitFs == IvfcIdle /\ FsInit

Init == InitIvfc

\* ---------------------------------------------------------------- actions
\* IvfcLevel::write(pos, buf); test::fuzz keeps `plain` from the write of
\* the whole region on
Write(pos, buf) ==
    LET n == Cardinality(DOMAIN buf)
        end == pos + n
        begin_block == pos \div block_len
        end_block == 1 + (end - 1) \div block_len
    IN  /\ end <= len
        /\ data' = [p \in 0..(len - 1) |->
                      IF pos <= p /\ p < end THEN buf[p - pos] ELSE data[p]]
        /\ status' = MarkModified(status, begin_block, end_block)
        /\ plain' = IF pos = 0 /\ n = len THEN buf
                    ELSE IF plain = None THEN None
                    ELSE [p \in 0..(len - 1) |->
                            IF pos <= p /\ p < end THEN buf[p - pos] ELSE plain[p]]
        /\ trusted' = trusted \cup pos..(end - 1)
        /\ tamper' = IF tamper \in BlocksOf(pos, n) THEN -1 ELSE tamper
        /\ last' = Done("write")
        /\ UNCHANGED <<hash, block_len, len, committed>>
        /\ UNCHANGED fsVars

\* IvfcLevel::read(pos, buf).  The record keeps the result, the block that
\* failed and the range of the failed read, the flipped block the read
\* touched, and whether the read repeats the read that failed before it
Read(pos, n) ==
    LET r == ReadOp(pos, n)
    IN  /\ pos + n <= len
        /\ status' = r.status
        /\ trusted' = trusted \cup UNION {BytesOf(i) : i \in r.ver}
        /\ tamper' = IF tamper \in BlocksOf(pos, n) THEN -1 ELSE tamper
        /\ last' = [op |-> "read", res |-> r.res, bad |-> r.bad,
                    tb |-> IF tamper \in BlocksOf(pos, n) THEN tamper ELSE -1,
                    rng |-> IF r.res = "Ok" THEN <<>> ELSE <<pos, n>>,
                    retry |-> last.rng = <<pos, n>>]
        /\ UNCHANGED <<hash, data, block_len, len, plain, committed>>
        /\ UNCHANGED fsVars

\* IvfcLevel::commit
Commit ==
    LET c == CommitLoop(0, status, hash)
    IN  /\ status' = c.status
        /\ hash' = c.hash
        /\ committed' = IF AllConsistent(data, c.hash) THEN data ELSE None
        /\ last' = Done("commit")
        /\ UNCHANGED <<data, block_len, len, plain, trusted, tamper>>
        /\ UNCHANGED fsVars

\* test::fuzz operation 1: commit, then a new IvfcLevel over the same stores
CommitReopen ==
    LET c == CommitLoop(0, status, hash)
    IN  /\ hash' = c.hash
        /\ status' = NewStatus(len, block_len)
        /\ committed' = IF AllConsistent(data, c.hash) THEN data ELSE None
        /\ trusted' = {}
        /\ last' = Done("commit_reopen")
        /\ UNCHANGED <<data, block_len, len, plain, tamper>>
        /\ UNCHANGED fsVars

\* the level is dropped without commit (IvfcLevel has no Drop), and a new
\* IvfcLevel is built over the same stores
DropReopen ==
    /\ status' = NewStatus(len, block_len)
    /\ trusted' = {}
    /\ last' = Done("drop_reopen")
    /\ UNCHANGED <<hash, data, block_len, len, plain, committed, tamper>>
    /\ UNCHANGED fsVars

\* behind the level's back: one bit of a committed block is flipped in the
\* data store, right after a commit
FlipBit(p) ==
    LET i == p \div block_len
    IN  /\ p < len
        /\ last.op \in {"commit", "commit_reopen"}
        /\ tamper = -1
        /\ Consistent(data, hash, i)
        /\ data' = [data EXCEPT ![p] = 1 - @]
        /\ tamper' = i
        /\ last' = Done("flip")
        /\ UNCHANGED <<hash, block_len, len, status, plain, trusted, committed>>
        /\ UNCHANGED fsVars

\* behind the level's back: the backing store is fixed after a read failed
\* on block i: the digest of the block is rewritten from the block's data
FixStore(i) ==
    /\ last.op = "read"
    /\ last.res = "HashMismatch"
    /\ last.bad = i
    /\ hash' = [hash EXCEPT ![i] = Sha256(BlockBuf(data, i))]
    /\ tamper' = IF tamper = i THEN -1 ELSE tamper
    /\ last' = [last EXCEPT !.op = "fix"]
    /\ UNCHANGED <<data, block_len, len, status, plain, trusted, committed>>
    /\ UNCHANGED fsVars

\* IvfcLevel::read with an empty buffer or past the end; the record keeps
\* the result and the range
ReadEdge(pos, n, build) ==
    LET r == ReadEdgeOp(pos, n, build)
    IN  /\ n = 0 \/ pos + n > len
        /\ status' = r.status
        /\ last' = [op |-> "read_edge", res |-> r.res, bad |-> -1,
                    rng |-> <<pos, n>>, tb |-> -1, retry |-> FALSE]
        /\ UNCHANGED <<hash, data, block_len, len, plain, trusted, committed, tamper>>
        /\ UNCHANGED fsVars

\* IvfcLevel::write with an empty buffer or past the end: data.write is not
\* reached past the end, and writes nothing with an empty buffer
WriteEdge(pos, n, build) ==
    LET r == WriteEdgeOp(pos, n, build)
    IN  /\ n = 0 \/ pos + n > len
        /\ status' = r.status
        /\ last' = [op |-> "write_edge", res |-> r.res, bad |-> -1,
                    rng |-> <<pos, n>>, tb |-> -1, retry |-> FALSE]
        /\ UNCHANGED <<hash, data, block_len, len, plain, trusted, committed, tamper>>
        /\ UNCHANGED fsVars

\* IvfcLevel::write whose data.write fails: the store is left as it was
WriteFail(pos, buf) ==
    LET n == Cardinality(DOMAIN buf)
        w == WriteOp(pos, n, "data")
    IN  /\ pos + n <= len
        /\ status' = w.status
        /\ last' = [Done("write_io") EXCEPT !.res = w.res]
        /\ UNCHANGED <<hash, data, block_len, len, plain, trusted, committed, tamper>>
        /\ UNCHANGED fsVars

\* IvfcLevel::read whose data.read or hash.read fails at block k
ReadFail(pos, n, k, where) ==
    LET r == ReadIoOp(pos, n, k, where)
    IN  /\ pos + n <= len
        /\ k \in BlocksOf(pos, n)
        /\ (where = "hash" /\ r.res = "IO") =>
              get_status(r.status, k) = BLOCK_UNVERIFIED
        /\ status' = r.status
        /\ trusted' = trusted \cup UNION {BytesOf(i) : i \in r.ver}
        /\ last' = [Done("read_io") EXCEPT !.res = r.res, !.bad = r.bad]
        /\ UNCHANGED <<hash, data, block_len, len, plain, committed, tamper>>
        /\ UNCHANGED fsVars

\* IvfcLevel::commit whose data.read or hash.write fails at the Modified
\* block k
CommitFail(k) ==
    LET c == CommitIoOp(k)
    IN  /\ k < BlockCount(len, block_len)
        /\ get_status(status, k) = BLOCK_MODIFIED
        /\ status' = c.status
        /\ hash' = c.hash
        /\ committed' = IF AllConsistent(data, c.hash) THEN data ELSE committed
        /\ last' = [Done("commit_io") EXCEPT !.res = "IO", !.bad = k]
        /\ UNCHANGED <<data, block_len, len, plain, trusted, tamper>>
        /\ UNCHANGED fsVars

Bufs == UNION {[0..(n - 1) -> Byte] : n \in 1..MaxLen}

\* test::fuzz: write, read, commit, commit and re-open
Next ==
    \/ \E pos \in 0..(MaxLen - 1), buf \in Bufs : Write(pos, buf)
    \/ \E pos \in 0..(MaxLen - 1), n \in 1..MaxLen : Read(pos, n)
    \/ Commit
    \/ CommitReopen

Spec == Init /\ [][Next]_vars

\* test::fuzz plus a level dropped without commit
NextCrash ==
    \/ \E pos \in 0..(MaxLen - 1), buf \in Bufs : Write(pos, buf)
    \/ \E pos \in 0..(MaxLen - 1), n \in 1..MaxLen : Read(pos, n)
    \/ Commit
    \/ CommitReopen
    \/ DropReopen

SpecCrash == Init /\ [][NextCrash]_vars

\* test::fuzz plus changes made to the stores behind the level's back
NextTamper ==
    \/ \E pos \in 0..(MaxLen - 1), buf \in Bufs : Write(pos, buf)
    \/ \E pos \in 0..(MaxLen - 1), n \in 1..MaxLen : Read(pos, n)
    \/ Commit
    \/ CommitReopen
    \/ \E p \in 0..(MaxLen - 1) : FlipBit(p)
    \/ \E i \in 0..(MaxLen - 1) : FixStore(i)

SpecTamper == Init /\ [][NextTamper]_vars

\* test::fuzz plus reads and writes with an empty buffer or past the end
NextEdge ==
    \/ \E pos \in 0..(MaxLen - 1), buf \in Bufs : Write(pos, buf)
    \/ \E pos \in 0..(MaxLen - 1), n \in 1..MaxLen : Read(pos, n)
    \/ Commit
    \/ CommitReopen
    \/ \E pos \in 0..MaxLen, n \in 0..MaxLen, build \in Builds : ReadEdge(pos, n, build)
    \/ \E pos \in 0..MaxLen, n \in 0..MaxLen, build \in Builds : WriteEdge(pos, n, build)

SpecEdge == Init /\ [][NextEdge]_vars

\* test::fuzz over stores that may fail with an I/O error
NextFault ==
    \/ \E pos \in 0..(MaxLen - 1), buf \in Bufs : Write(pos, buf)
    \/ \E pos \in 0..(MaxLen - 1), n \in 1..MaxLen : Read(pos, n)
    \/ Commit
    \/ CommitReopen
    \/ \E pos \in 0..(MaxLen - 1), buf \in Bufs : WriteFail(pos, buf)
    \/ \E pos \in 0..(MaxLen - 1), n \in 1..MaxLen, k \in 0..(MaxLen - 1),
          where \in {"data", "hash"} : ReadFail(pos, n, k, where)
    \/ \E k \in 0..(MaxLen - 1) : CommitFail(k)

SpecFault == Init /\ [][NextFault]_vars

\* ----------------------------------------------- file system actions
\* the caller keeps the Files it holds in the lowest free slots
FreeSlot(h) ==
    /\ handles[h] = NoHandle
    /\ \A k \in 1..(h - 1) : handles[k] # NoHandle

\* SaveDataFileSystem::file_open_ino into the free handle slot h
FileOpenIno(h, ino, f) ==
    LET r == file_open_ino(fat, meta, ino, f)
    IN  /\ FreeSlot(h)
        /\ handles' = IF r.res = "Ok" THEN [handles EXCEPT ![h] = r.hd] ELSE handles
        /\ fslast' = FsRec("file_open_ino", r.res, FALSE, Dead(meta, ino))
        /\ UNCHANGED <<fat, meta>>
        /\ UNCHANGED <<ivfcVars, save>>

\* SaveDataFileSystem::open_sub_file into the free handle slot h
OpenSubFile(h, dir, name, f) ==
    LET r == open_sub_file(fat, meta, dir, name, f)
    IN  /\ FreeSlot(h)
        /\ dir \in LiveDirs(meta)
        /\ handles' = IF r.res = "Ok" THEN [handles EXCEPT ![h] = r.hd] ELSE handles
        /\ fslast' = FsRec("open_sub_file", r.res, FALSE, FALSE)
        /\ UNCHANGED <<fat, meta>>
        /\ UNCHANGED <<ivfcVars, save>>

\* a File is dropped
CloseFile(h) ==
    /\ handles[h] # NoHandle
    /\ handles' = [handles EXCEPT ![h] = NoHandle]
    /\ fslast' = FsRec("close", "Ok", FALSE, FALSE)
    /\ UNCHANGED <<fat, meta>>
    /\ UNCHANGED <<ivfcVars, save>>

\* SaveDataFileSystem::new_sub_file, the File into the free handle slot h
NewSubFile(h, dir, name, n, f) ==
    LET r == new_sub_file(fat, meta, dir, name, n, f)
    IN  /\ FreeSlot(h)
        /\ dir \in LiveDirs(meta)
        /\ fat' = r.fat
        /\ meta' = r.meta
        /\ handles' = IF r.res = "Ok" THEN [handles EXCEPT ![h] = r.hd] ELSE handles
        /\ fslast' = FsRec("new_sub_file", r.res, Exists(meta, dir, name), FALSE)
        /\ UNCHANGED <<ivfcVars, save>>

\* SaveDataFileSystem::resize
Resize(h, n, f) ==
    LET r == resize(fat, meta, handles[h], n, f)
    IN  /\ handles[h] # NoHandle
        /\ fat' = r.fat
        /\ meta' = r.meta
        /\ handles' = [handles EXCEPT ![h] = r.hd]
        /\ fslast' = FsRec("resize", r.res, FALSE, Dead(meta, handles[h].ino))
        /\ UNCHANGED <<ivfcVars, save>>

\* SaveDataFileSystem::file_delete: the File is consumed
FileDelete(h, f) ==
    LET r == file_delete(fat, meta, handles[h], f)
    IN  /\ handles[h] # NoHandle
        /\ fat' = r.fat
        /\ meta' = r.meta
        /\ handles' = [handles EXCEPT ![h] = NoHandle]
        /\ fslast' = FsRec("file_delete", r.res, FALSE, Dead(meta, handles[h].ino))
        /\ UNCHANGED <<ivfcVars, save>>

\* SaveDataFileSystem::file_rename
FileRename(h, parent, name, f) ==
    LET r == file_rename(meta, handles[h], parent, name, f)
    IN  /\ handles[h] # NoHandle
        /\ parent \in LiveDirs(meta)
        /\ meta' = r.meta
        /\ fslast' = FsRec("file_rename", r.res, Exists(meta, parent, name),
                           Dead(meta, handles[h].ino))
        /\ UNCHANGED <<fat, handles>>
        /\ UNCHANGED <<ivfcVars, save>>

\* SaveDataFileSystem::read
ReadFile(h, pos, n) ==
    /\ handles[h] # NoHandle
    /\ fslast' = FsRec("read", file_io(handles[h], pos, n), FALSE,
                       Dead(meta, handles[h].ino))
    /\ UNCHANGED <<fat, meta, handles>>
    /\ UNCHANGED <<ivfcVars, save>>

\* SaveDataFileSystem::write
WriteFile(h, pos, n) ==
    /\ handles[h] # NoHandle
    /\ fslast' = FsRec("write", file_io(handles[h], pos, n), FALSE,
                       Dead(meta, handles[h].ino))
    /\ UNCHANGED <<fat, meta, handles>>
    /\ UNCHANGED <<ivfcVars, save>>

\* SaveDataFileSystem::new_sub_dir
NewSubDir(dir, name, f) ==
    LET r == new_sub_dir(fat, meta, dir, name, f)
    IN  /\ dir \in LiveDirs(meta)
        /\ meta' = r.meta
        /\ fslast' = FsRec("new_sub_dir", r.res, Exists(meta, dir, name), FALSE)
        /\ UNCHANGED <<fat, handles>>
        /\ UNCHANGED <<ivfcVars, save>>

\* SaveDataFileSystem::dir_rename of a directory other than the root, to
\* a parent other than itself
DirRename(d, parent, name, f) ==
    LET r == dir_rename(fat, meta, d, parent, name, f)
    IN  /\ d \in LiveDirs(meta) \ {RootIno}
        /\ parent \in LiveDirs(meta) \ {d}
        /\ meta' = r.meta
        /\ fslast' = FsRec("dir_rename", r.res, Exists(meta, parent, name), FALSE)
        /\ UNCHANGED <<fat, handles>>
        /\ UNCHANGED <<ivfcVars, save>>

\* SaveDataFileSystem::dir_delete of a directory other than the root
DirDelete(d, f) ==
    LET r == dir_delete(meta, d, f)
    IN  /\ d \in LiveDirs(meta) \ {RootIno}
        /\ meta' = r.meta
        /\ fslast' = FsRec("dir_delete", r.res, FALSE, FALSE)
        /\ UNCHANGED <<fat, handles>>
        /\ UNCHANGED <<ivfcVars, save>>

HandleSlots == 1..MaxHandles
\* the lengths of the buffers read and written through a File
IoLens == 1..FsBlockLen

\* the name the files of NextFs go by; names are exercised by NextDir
FsNames == {"a"}

\* Files of the root directory are created, opened, resized, read, written
\* and deleted; each call may meet an I/O fault in one of its sub-steps
NextFs ==
    \/ \E h \in HandleSlots, ino \in FileInos, f \in {"none", "get_info", "fat"} :
          FileOpenIno(h, ino, f)
    \/ \E h \in HandleSlots, name \in FsNames, f \in {"none", "meta", "get_info", "fat"} :
          OpenSubFile(h, RootIno, name, f)
    \/ \E h \in HandleSlots : CloseFile(h)
    \/ \E h \in HandleSlots, name \in FsNames, n \in 0..MaxFileLen,
          f \in {"none", "probe", "fat", "meta", "open"} :
          NewSubFile(h, RootIno, name, n, f)
    \/ \E h \in HandleSlots, n \in 0..MaxFileLen,
          f \in {"none", "get_info", "fat", "set_info"} : Resize(h, n, f)
    \/ \E h \in HandleSlots, f \in {"none", "fat", "meta"} : FileDelete(h, f)
    \/ \E h \in HandleSlots, pos \in 0..MaxFileLen, n \in IoLens : ReadFile(h, pos, n)
    \/ \E h \in HandleSlots, pos \in 0..MaxFileLen, n \in IoLens : WriteFile(h, pos, n)

SpecFs == InitFs /\ [][NextFs]_vars

\* files of the root directory are created, opened, resized, read and
\* written, and no call meets an I/O fault
NextAgree ==
    \/ \E h \in HandleSlots, ino \in FileInos : FileOpenIno(h, ino, "none")
    \/ \E h \in HandleSlots, name \in FsNames : OpenSubFile(h, RootIno, name, "none")
    \/ \E h \in HandleSlots, name \in FsNames, n \in 0..MaxFileLen :
          NewSubFile(h, RootIno, name, n, "none")
    \/ \E h \in HandleSlots, n \in 0..MaxFileLen : Resize(h, n, "none")
    \/ \E h \in HandleSlots, pos \in 0..MaxFileLen, n \in IoLens : ReadFile(h, pos, n)
    \/ \E h \in HandleSlots, pos \in 0..MaxFileLen, n \in IoLens : WriteFile(h, pos, n)

SpecAgree == InitFs /\ [][NextAgree]_vars

\* files and directories are created, renamed and deleted; the existence
\* probe may meet an I/O fault
NextDir ==
    \/ \E h \in HandleSlots, dir \in DirInos, name \in Names :
          OpenSubFile(h, dir, name, "none")
    \/ \E h \in HandleSlots : CloseFile(h)
    \/ \E h \in HandleSlots, dir \in DirInos, name \in Names, n \in 0..MaxFileLen,
          f \in {"none", "probe"} : NewSubFile(h, dir, name, n, f)
    \/ \E h \in HandleSlots : FileDelete(h, "none")
    \/ \E h \in HandleSlots, parent \in DirInos, name \in Names :
          FileRename(h, parent, name, "none")
    \/ \E dir \in DirInos, name \in Names, f \in {"none", "probe"} :
          NewSubDir(dir, name, f)
    \/ \E d \in DirInos, parent \in DirInos, name \in Names, f \in {"none", "probe"} :
          DirRename(d, parent, name, f)
    \/ \E d \in DirInos : DirDelete(d, "none")

SpecDir == InitFs /\ [][NextDir]_vars

\* a save image as it is loaded: one file record of the root directory with
\* any block and size fields, over a FAT holding at most one chain
Chains == {<<>>} \cup {<<b>> : b \in 1..DataBlockCount}
          \cup {<<b, c>> : b, c \in 1..DataBlockCount}

ImageFat(q) ==
    [free |-> SelectSeq([k \in 1..DataBlockCount |-> k], LAMBDA b : b \notin Range(q)),
     chain |-> [b \in 1..DataBlockCount |-> IF q # <<>> /\ b = q[1] THEN q ELSE <<>>]]

ImageMeta(name, block, size) ==
    [FreshMeta EXCEPT !.ffree = Tail(@),
                      !.files[1] = [parent |-> RootIno, name |-> name,
                                    block |-> block, size |-> size]]

InitImage ==
    /\ \E q \in {c \in Chains : Cardinality(Range(c)) = Len(c)} : fat = ImageFat(q)
    /\ \E block \in {NoBlock} \cup (1..DataBlockCount), size \in 0..MaxFileLen :
          meta = ImageMeta("a", block, size)
    /\ handles = [h \in 1..MaxHandles |-> NoHandle]
    /\ fslast = FsRec("new", "Ok", FALSE, FALSE)
    /\ save = OpenedSave

InitOpen == IvfcIdle /\ InitImage

\* the files of a loaded image are opened and closed
NextOpen ==
    \/ \E h \in HandleSlots, ino \in FileInos, f \in {"none", "get_info", "fat"} :
          FileOpenIno(h, ino, f)
    \/ \E h \in HandleSlots, name \in Names, f \in {"none", "meta", "get_info", "fat"} :
          OpenSubFile(h, RootIno, name, f)
    \/ \E h \in HandleSlots : CloseFile(h)

SpecOpen == InitOpen /\ [][NextOpen]_vars

\* SaveData::new on an image
New ==
    /\ ~save.called
    /\ save' = [save EXCEPT !.called = TRUE, !.out = SaveDataNew(save.image)]
    /\ UNCHANGED <<fat, meta, handles, fslast>>
    /\ UNCHANGED ivfcVars

\* an image, not yet opened
InitNew ==
    /\ IvfcIdle
    /\ fat = FreshFat
    /\ meta = FreshMeta
    /\ handles = [h \in 1..MaxHandles |-> NoHandle]
    /\ fslast = FsRec("new", "Ok", FALSE, FALSE)
    /\ \E img \in Images : save = Unopened(img)

NextNew == New

SpecNew == InitNew /\ [][NextNew]_vars

\* ------------------------------------------------------------- properties
\* the ranges a caller may read or write: pos + n <= len, n >= 1
Ranges == {rg \in (0..(len - 1)) \X (1..len) : rg[1] + rg[2] <= len}
Touches(rg, i) == i \in BlocksOf(rg[1], rg[2])

\* C1: once the whole data region has been written through the level, and
\* whatever writes, reads, commits and commit-and-re-opens follow, every read
\* succeeds and returns the bytes of the plain array that got the same writes.
C1_RoundTrip ==
    plain # None =>
        \A rg \in Ranges :
            /\ ReadOp(rg[1], rg[2]).res = "Ok"
            /\ ReadOp(rg[1], rg[2]).buf = Slice(plain, rg[1], rg[2])

\* a read succeeded on a re-opened level whose length is no multiple of the
\* block length: the zero-padded tail block passed its digest check
C1_Witness ==
    /\ plain # None
    /\ last.op = "read" /\ last.res = "Ok"
    /\ len % block_len # 0 /\ len > block_len
    /\ trusted = BytesOf(BlockCount(len, block_len) - 1)
    /\ get_status(status, BlockCount(len, block_len) - 1) = BLOCK_VERIFIED

\* C2 (as amended): while a bit flipped behind the level's back in a committed
\* block is pending (no read or write has touched the block since), a read
\* that touches the block returns HashMismatch if the block's status is
\* Unverified.
C2_TamperDetectedWhenUnverified ==
    (tamper # -1 /\ get_status(status, tamper) = BLOCK_UNVERIFIED) =>
        \A rg \in Ranges :
            Touches(rg, tamper) => ReadOp(rg[1], rg[2]).res = "HashMismatch"

\* a read touched the flipped block and failed on it
C2_Witness ==
    /\ last.op = "read" /\ last.res = "HashMismatch"
    /\ last.tb # -1 /\ last.bad = last.tb

\* C2 (as claimed): a read that touches the flipped block returns
\* HashMismatch on every level, the one that performed the commit included.
C2_TamperAlwaysDetected ==
    tamper # -1 =>
        \A rg \in Ranges :
            Touches(rg, tamper) => ReadOp(rg[1], rg[2]).res = "HashMismatch"

\* C3 (as claimed): a successful read returns only bytes that were written
\* through this level or that a successful digest check of their block, by
\* this level, covers.
C3_ReadBytesTrusted ==
    \A rg \in Ranges :
        LET r == ReadOp(rg[1], rg[2])
        IN  r.res = "Ok" =>
                \A p \in rg[1]..(rg[1] + rg[2] - 1) :
                    p \in trusted \/ (p \div block_len) \in r.ver

\* C4: a read that returns HashMismatch leaves the failing block Unverified,
\* and a read whose blocks all carry the right digest succeeds, whatever
\* failed before it.
C4_NonLatching ==
    /\ \A rg \in Ranges :
          LET r == ReadOp(rg[1], rg[2])
          IN  /\ r.res = "HashMismatch" =>
                    get_status(r.status, r.bad) = BLOCK_UNVERIFIED
              /\ (\A i \in BlocksOf(rg[1], rg[2]) : Consistent(data, hash, i)) =>
                    r.res = "Ok"
    /\ (last.op = "read" /\ last.res = "HashMismatch") =>
          get_status(status, last.bad) = BLOCK_UNVERIFIED

\* the read that failed was repeated over the same range after the store was
\* fixed, and succeeded
C4_Witness ==
    last.op = "read" /\ last.retry /\ last.res = "Ok"

\* C5 (as claimed): on a level re-opened after the previous one was dropped
\* without commit, every read succeeds and returns the bytes as of the last
\* commit.
C5_CrashYieldsCommitted ==
    (last.op = "drop_reopen" /\ committed # None) =>
        \A rg \in Ranges :
            /\ ReadOp(rg[1], rg[2]).res = "Ok"
            /\ ReadOp(rg[1], rg[2]).buf = Slice(committed, rg[1], rg[2])

\* C6 (as claimed): a resize, file_delete or new_sub_file that returns an
\* error leaves the FAT, the metadata tables and the File it was called on
\* (which file_delete consumes) as they were before the call.
C6_AllOrNothing ==
    [][(fslast'.op \in {"resize", "file_delete", "new_sub_file"}
            /\ fslast'.res \notin {"Ok", "Panic"})
        => /\ fat' = fat
           /\ meta' = meta
           /\ fslast'.op # "file_delete" => handles' = handles]_vars

\* C7 (as claimed): no two children of a directory, files or directories,
\* share a name, and a create or rename onto a name that exists under the
\* target parent is rejected with AlreadyExist.
C7_NamesUniqueAndRejected ==
    /\ \A parent \in DirInos, name \in Names :
          Cardinality(FileNamed(meta, parent, name))
              + Cardinality(DirNamed(meta, parent, name)) <= 1
    /\ (/\ fslast.op \in {"new_sub_file", "new_sub_dir", "file_rename", "dir_rename"}
        /\ fslast.dup
        /\ ~fslast.dead)
          => fslast.res = "AlreadyExist"

\* the chain of the live file record i
RecordChain(i) ==
    IF meta.files[i].block \in 1..DataBlockCount
    THEN fat.chain[meta.files[i].block]
    ELSE <<>>

\* C8 (as claimed): after any new_sub_file, resize and file_delete calls,
\* successful or failed, every data block is either once in the free chain
\* or in the chain of exactly one live file record.
C8_FatConservation ==
    \A b \in 1..DataBlockCount :
        Cardinality({k \in 1..Len(fat.free) : fat.free[k] = b})
            + Cardinality({i \in LiveFiles(meta) : b \in Range(RecordChain(i))}) = 1

\* C9 (as claimed): once an ino is deleted, file_open_ino on it and read,
\* write and resize through a File opened on it before the delete return
\* NotFound.
C9_DeletedInoNotFound ==
    (fslast.op \in {"file_open_ino", "read", "write", "resize"} /\ fslast.dead)
        => fslast.res = "NotFound"

\* how the record of the live file i stands to the FAT
HasChain(i) ==
    /\ meta.files[i].block \in 1..DataBlockCount
    /\ fat.chain[meta.files[i].block] # <<>>
SizeOverChain(i) ==
    \/ meta.files[i].block = NoBlock /\ meta.files[i].size # 0
    \/ HasChain(i) /\ meta.files[i].size = 0
    \/ HasChain(i) /\ meta.files[i].size > FatLen(RecordChain(i))
ChainOverSize(i) ==
    /\ HasChain(i)
    /\ meta.files[i].size > 0
    /\ Len(RecordChain(i)) > BlocksFor(meta.files[i].size)

\* the results of opening the live file i by ino and by name, no I/O fault
OpenResults(i) ==
    {file_open_ino(fat, meta, i, "none").res,
     open_sub_file(fat, meta, meta.files[i].parent, meta.files[i].name, "none").res}

\* C10 (amended): opening a file fails with SizeMismatch when its block is
\* the sentinel but its size is not 0, when its block starts a chain but its
\* size is 0, and when its size is larger than the chain holds; a chain
\* longer than the size needs is accepted and the open succeeds.
C10_SizeMismatchOnOpen ==
    \A i \in LiveFiles(meta) :
        /\ SizeOverChain(i) => OpenResults(i) = {"SizeMismatch"}
        /\ ChainOverSize(i) /\ ~SizeOverChain(i) => OpenResults(i) = {"Ok"}

\* a file whose block starts a chain and whose size is 0 was opened and the
\* open returned SizeMismatch
C10_Witness ==
    /\ fslast.op \in {"file_open_ino", "open_sub_file"}
    /\ fslast.res = "SizeMismatch"
    /\ \E i \in LiveFiles(meta) : HasChain(i) /\ meta.files[i].size = 0

\* C10 (as claimed): the open fails with SizeMismatch also when the chain is
\* longer than the size needs.
C10_SizeMismatchOnAnyDisagreement ==
    \A i \in LiveFiles(meta) :
        (SizeOverChain(i) \/ ChainOverSize(i)) => OpenResults(i) = {"SizeMismatch"}

\* C11 (as claimed): a read or write with an empty buffer at a position
\* 0 <= pos <= len returns Ok and changes no block status, data byte or
\* digest.
C11_ZeroLengthTrivial ==
    [][(/\ last'.op \in {"read_edge", "write_edge"}
        /\ last'.rng[2] = 0
        /\ last'.rng[1] <= len)
        => /\ last'.res = "Ok"
           /\ status' = status
           /\ data' = data
           /\ hash' = hash]_vars

\* C12 (as claimed): a read or write with pos + buf.len() > len returns
\* OutOfBound and changes no data, status or digest.
C12_OutOfBoundReturned ==
    [][(/\ last'.op \in {"read_edge", "write_edge"}
        /\ last'.rng[1] + last'.rng[2] > len)
        => /\ last'.res = "OutOfBound"
           /\ status' = status
           /\ data' = data
           /\ hash' = hash]_vars

\* C13 (as claimed): when the probe of the target name fails with an error
\* other than NotFound, new_sub_file, new_sub_dir and dir_rename return that
\* error and create or rename nothing.
C13_ProbeErrorReturned ==
    \A dir \in LiveDirs(meta), name \in Names, f \in {"none", "probe"} :
        LET e == ProbeErr(fat, meta, dir, name, f)
            nf == new_sub_file(fat, meta, dir, name, 0, f)
            nd == new_sub_dir(fat, meta, dir, name, f)
        IN  e # "none" =>
              /\ nf.res = e /\ nf.meta = meta /\ nf.fat = fat
              /\ nd.res = e /\ nd.meta = meta
              /\ \A d \in LiveDirs(meta) \ {RootIno, dir} :
                    LET dr == dir_rename(fat, meta, d, dir, name, f)
                    IN  dr.res = e /\ dr.meta = meta

\* C14: when the header was read, SaveData::new returns MagicMismatch if the
\* magic is not "SAVE" or the version is not 0x40000, and this before FsInfo
\* is read; otherwise, when FsInfo was read, it returns SizeMismatch if
\* data_block_count differs from fat_size; in both cases no SaveData is
\* produced.
C14_OpenValidation ==
    (save.called /\ save.image.disa_ok /\ save.image.header_ok) =>
        /\ (save.image.magic # "SAVE" \/ save.image.version # SAVE_VERSION) =>
              /\ save.out.res = "MagicMismatch"
              /\ ~save.out.fs_info_read
              /\ ~save.out.object
        /\ (/\ save.image.magic = "SAVE"
            /\ save.image.version = SAVE_VERSION
            /\ save.image.fs_info_ok
            /\ save.image.data_block_count # save.image.fat_size) =>
              /\ save.out.res = "SizeMismatch"
              /\ ~save.out.object

\* new was called on an image with the right magic and a wrong version and
\* returned MagicMismatch
C14_Witness ==
    /\ save.called
    /\ save.image.magic = "SAVE"
    /\ save.image.version # SAVE_VERSION
    /\ save.image.data_block_count # save.image.fat_size
    /\ save.out.res = "MagicMismatch"

\* the 2-bit fields of a status vector, those past the last block included
Fields(st) == {i \in 0..(4 * ChunkCount(len, block_len) - 1) : TRUE}

\* C15: a successful write of a non-empty buffer within the region sets
\* Modified on exactly the blocks the range covers, whatever their status,
\* and leaves every other field of the packed status as it was; the hash
\* store is not touched; a write whose data write fails changes no status.
C15_WriteFrame ==
    /\ [](\A rg \in Ranges :
            /\ \A i \in Fields(status) :
                  get_status(WriteOp(rg[1], rg[2], "none").status, i) =
                      IF i \in BlocksOf(rg[1], rg[2]) THEN BLOCK_MODIFIED
                      ELSE get_status(status, i)
            /\ WriteOp(rg[1], rg[2], "data").status = status)
    /\ [][last'.op \in {"write", "write_io"} =>
            /\ hash' = hash
            /\ last'.op = "write_io" => status' = status]_vars

\* a write was done on a level of two blocks, one left Modified by it, the
\* other Verified
C15_Witness ==
    /\ last.op = "write"
    /\ \E i, j \in 0..(BlockCount(len, block_len) - 1) :
          /\ get_status(status, i) = BLOCK_MODIFIED
          /\ get_status(status, j) = BLOCK_VERIFIED

\* block i of the data store, zero-padded to the block size
Padded(i) ==
    [k \in 0..(block_len - 1) |->
        IF i * block_len + k < len THEN data[i * block_len + k] ELSE 0]

\* C16: after a commit no block is Modified; each block that was Modified is
\* Verified and its digest is SHA-256 of its zero-padded contents; each
\* block that was Unverified or Verified keeps its status and its digest;
\* a second commit right after changes no digest.
C16_CommitPostcondition ==
    /\ [](LET c == CommitLoop(0, status, hash)
              again == CommitLoop(0, c.status, c.hash)
          IN  /\ \A i \in 0..(BlockCount(len, block_len) - 1) :
                    /\ get_status(c.status, i) # BLOCK_MODIFIED
                    /\ get_status(status, i) = BLOCK_MODIFIED =>
                          /\ get_status(c.status, i) = BLOCK_VERIFIED
                          /\ c.hash[i] = Sha256(Padded(i))
                    /\ get_status(status, i) # BLOCK_MODIFIED =>
                          /\ get_status(c.status, i) = get_status(status, i)
                          /\ c.hash[i] = hash[i]
              /\ again.hash = c.hash
              /\ again.status = c.status)
    /\ [][last'.op = "commit" =>
            /\ status' = CommitLoop(0, status, hash).status
            /\ hash' = CommitLoop(0, status, hash).hash
            /\ data' = data]_vars

\* a commit was done on a level of two blocks: one was Modified and is now
\* Verified under the digest of its padded contents, the other was never
\* read and holds the digest of no block
C16_Witness ==
    /\ last.op = "commit"
    /\ \E i, j \in 0..(BlockCount(len, block_len) - 1) :
          /\ get_status(status, i) = BLOCK_VERIFIED
          /\ hash[i] = Sha256(Padded(i))
          /\ i * block_len + block_len > len
          /\ get_status(status, j) = BLOCK_UNVERIFIED
          /\ hash[j] = Garbage

\* C17 (as claimed): a read, write or commit that returns an error, be it
\* HashMismatch or an I/O error of a store, leaves the status of every block
\* and every stored digest as they were before the call.
C17_IvfcAllOrNothing ==
    [][(/\ last'.op \in {"read", "read_io", "write_io", "commit_io"}
        /\ last'.res # "Ok")
        => /\ status' = status
           /\ hash' = hash]_vars

\* the postcondition of a create or resize to length n of the file ino:
\* the File, the record and the FAT after the call
SizedTo(ft, mt, hd, ino, n) ==
    /\ hd.len = n
    /\ mt.files[ino] # NoFileRec
    /\ mt.files[ino].size = n
    /\ n = 0 => mt.files[ino].block = NoBlock /\ hd.data = NoData
    /\ n > 0 => /\ mt.files[ino].block \in 1..DataBlockCount
                /\ Len(ft.chain[mt.files[ino].block]) = BlocksFor(n)

\* C18 (as claimed): after a successful new_sub_file(dir, name, n) or
\* resize(file, n) the File's len and the record's size are n, the record's
\* block is the sentinel with no FAT file held when n = 0 and else starts a
\* chain of exactly ceil(n / block_len) blocks; a resize to the current
\* length returns Ok and touches neither the FAT nor the record.
C18_SizedAfterCreateOrResize ==
    \A n \in 0..MaxFileLen :
        /\ \A name \in FsNames :
              LET r == new_sub_file(fat, meta, RootIno, name, n, "none")
              IN  r.res = "Ok" => SizedTo(r.fat, r.meta, r.hd, r.hd.ino, n)
        /\ \A h \in HandleSlots :
              LET r == resize(fat, meta, handles[h], n, "none")
              IN  handles[h] # NoHandle =>
                    /\ r.res = "Ok" => SizedTo(r.fat, r.meta, r.hd, handles[h].ino, n)
                    /\ n = handles[h].len =>
                          r.res = "Ok" /\ r.fat = fat /\ r.meta = meta

\* C19 (as claimed): for every File held, its len is the size of its record,
\* and it holds no FAT file iff its len is 0 iff the record's block is the
\* sentinel; a read or write that passes the bounds check finds the FAT file
\* present and stays inside the record's chain.
C19_HandleAgreesWithRecord ==
    \A h \in HandleSlots :
        handles[h] # NoHandle =>
            LET hd == handles[h]
                info == meta.files[hd.ino]
            IN  /\ hd.len = info.size
                /\ (hd.data = NoData) = (hd.len = 0)
                /\ (hd.len = 0) = (info.block = NoBlock)
                /\ \A pos \in 0..MaxFileLen, n \in IoLens :
                      pos + n <= hd.len =>
                          /\ file_io(hd, pos, n) = "Ok"
                          /\ hd.data = RecordChain(hd.ino)

\* the status of block i goes from a to b by one of: Unverified to Verified
\* (a matching read), any to Modified (a write), Modified to Verified (a commit)
StatusStep(a, b) ==
    \/ a = b
    \/ a = BLOCK_UNVERIFIED /\ b = BLOCK_VERIFIED
    \/ b = BLOCK_MODIFIED
    \/ a = BLOCK_MODIFIED /\ b = BLOCK_VERIFIED

\* C20: with the stores changed only through the level, every Verified
\* block holds the digest of its zero-padded contents, and while the level
\* lives the status of a block changes only from Unverified to Verified (by
\* a read), to Modified (by a write) and from Modified to Verified (by a
\* commit), never back to Unverified.
C20_VerifiedMeansConsistent ==
    /\ [](\A i \in 0..(BlockCount(len, block_len) - 1) :
            get_status(status, i) = BLOCK_VERIFIED => hash[i] = Sha256(Padded(i)))
    /\ [][last'.op # "commit_reopen" =>
            \A i \in 0..(BlockCount(len, block_len) - 1) :
                /\ StatusStep(get_status(status, i), get_status(status', i))
                /\ get_status(status, i) # BLOCK_UNVERIFIED =>
                      get_status(status', i) # BLOCK_UNVERIFIED
                /\ get_status(status, i) # get_status(status', i) =>
                      \/ last'.op = "read" /\ get_status(status', i) = BLOCK_VERIFIED
                      \/ last'.op = "write" /\ get_status(status', i) = BLOCK_MODIFIED
                      \/ last'.op = "commit" /\ get_status(status', i) = BLOCK_VERIFIED]_vars

\* after the whole region was written, a read succeeded on a level of more
\* than one block with every block Verified under the digest of its padded
\* contents
C20_Witness ==
    /\ last.op = "read"
    /\ last.res = "Ok"
    /\ plain # None
    /\ \A i \in 0..(BlockCount(len, block_len) - 1) :
          get_status(status, i) = BLOCK_VERIFIED /\ hash[i] = Sha256(Padded(i))
    /\ BlockCount(len, block_len) > 1

====
